---------------------------- MODULE Spec2Model ----------------------------
(***************************************************************************)
(* The debt-payoff simulator of src/budget_app.py: calculate_payoff,       *)
(* snowball, avalanche and simulate (lines 15-58), and the caller that     *)
(* runs snowball and then avalanche on one loan list (lines 163-175).      *)
(*                                                                         *)
(* Numbers.  Python's numbers are modelled as exact signed numbers of      *)
(* unbounded size (a sign and base-Base limbs), because a balance that is  *)
(* not amortized compounds for 600 months.  The inputs are integers and    *)
(* the rates are multiples of 1200, for which rate / 100 / 12 is an exact  *)
(* integer, so every value the program computes here is an integer.        *)
(* Python holds these values in floats once a rate has been applied; the   *)
(* rounding of a float above 2^53 is not modelled, and no value of the     *)
(* model reaches the float range's end (2^1024).                           *)
(*                                                                         *)
(* Objects.  A loan is a dict, i.e. an object with identity: heap maps an  *)
(* address to a loan record, and a list of loans is a sequence of          *)
(* addresses.  sorted() builds a new list of the same objects; loan.copy() *)
(* allocates a new object.                                                 *)
(***************************************************************************)
EXTENDS Integers, Sequences, FiniteSets, TLC

(***************************************************************************)
(* Bounds of the model and constants of the program                        *)
(***************************************************************************)
Cap == 600

MaxBalance == 2

MaxFactor == 1

MaxMinPayment == 1

MaxExtra == 2

MaxPayment == 2

Base == 10^8

(***************************************************************************)
(* Exact numbers: [neg |-> sign, mag |-> limbs, least significant first,   *)
(* no leading zero limb]; zero is [neg |-> FALSE, mag |-> <<>>].           *)
(***************************************************************************)
RECURSIVE MagOfNat(_)
MagOfNat(n) == IF n = 0 THEN << >> ELSE <<n % Base>> \o MagOfNat(n \div Base)

Num(i) == IF i < 0 THEN [neg |-> TRUE, mag |-> MagOfNat(0 - i)]
                   ELSE [neg |-> FALSE, mag |-> MagOfNat(i)]

Zero == Num(0)

RECURSIVE MagAdd(_, _, _)
MagAdd(a, b, c) ==
    IF c = 0 /\ (a = << >> \/ b = << >>)
    THEN IF a = << >> THEN b ELSE a
    ELSE LET s == (IF a = << >> THEN 0 ELSE Head(a))
                  + (IF b = << >> THEN 0 ELSE Head(b)) + c
         IN <<s % Base>> \o MagAdd(IF a = << >> THEN a ELSE Tail(a),
                                   IF b = << >> THEN b ELSE Tail(b),
                                   s \div Base)

RECURSIVE MagTrim(_)
MagTrim(a) == IF a # << >> /\ a[Len(a)] = 0
              THEN MagTrim(SubSeq(a, 1, Len(a) - 1))
              ELSE a

\* a - b - c on magnitudes, for a >= b + c (untrimmed)
RECURSIVE MagSubRaw(_, _, _)
MagSubRaw(a, b, c) ==
    IF c = 0 /\ b = << >>
    THEN a
    ELSE LET d == Head(a) - (IF b = << >> THEN 0 ELSE Head(b)) - c
         IN IF d < 0
            THEN <<d + Base>> \o MagSubRaw(Tail(a), IF b = << >> THEN b ELSE Tail(b), 1)
            ELSE <<d>> \o MagSubRaw(Tail(a), IF b = << >> THEN b ELSE Tail(b), 0)

MagSub(a, b) == MagTrim(MagSubRaw(a, b, 0))

\* a < b on magnitudes: fewer limbs, or the highest differing limb is smaller
MagLess(a, b) ==
    \/ Len(a) < Len(b)
    \/ /\ Len(a) = Len(b)
       /\ \E i \in 1..Len(a) :
            /\ a[i] < b[i]
            /\ \A j \in (i + 1)..Len(a) : a[j] = b[j]

RECURSIVE MagMul(_, _, _)
MagMul(a, k, c) ==
    IF a = << >>
    THEN IF c = 0 THEN << >> ELSE <<c>>
    ELSE LET s == Head(a) * k + c
         IN <<s % Base>> \o MagMul(Tail(a), k, s \div Base)

NNeg(x) == IF x.mag = << >> THEN x ELSE [neg |-> ~x.neg, mag |-> x.mag]

NAdd(x, y) ==
    IF x.neg = y.neg
    THEN [neg |-> x.neg, mag |-> MagAdd(x.mag, y.mag, 0)]
    ELSE IF MagLess(x.mag, y.mag)
         THEN [neg |-> y.neg, mag |-> MagSub(y.mag, x.mag)]
         ELSE IF x.mag = y.mag
              THEN Zero
              ELSE [neg |-> x.neg, mag |-> MagSub(x.mag, y.mag)]

NSub(x, y) == NAdd(x, NNeg(y))

NLess(x, y) ==
    IF x.neg # y.neg
    THEN x.neg
    ELSE IF x.neg THEN MagLess(y.mag, x.mag) ELSE MagLess(x.mag, y.mag)

NLeq(x, y) == ~NLess(y, x)

NPos(x) == NLess(Zero, x)

NMin(x, y) == IF NLess(y, x) THEN y ELSE x

NMax(x, y) == IF NLess(x, y) THEN y ELSE x

\* x * k for an integer k >= 0
NMulNat(x, k) ==
    IF k = 0 \/ x.mag = << >>
    THEN Zero
    ELSE IF k = 1 THEN x ELSE [neg |-> x.neg, mag |-> MagMul(x.mag, k, 0)]

RECURSIVE NSum(_)
NSum(s) == IF s = << >> THEN Zero ELSE NAdd(Head(s), NSum(Tail(s)))


(***************************************************************************)
(* State                                                                   *)
(***************************************************************************)
VARIABLES
    todo,            \* the calls the caller has still to make, in order
    pc,              \* "start", "loop" (at the while test), "returned"
    fn,              \* the function whose body is running
    heap,            \* address -> loan dict
    callerLoans,     \* the caller's list `loans`: a sequence of addresses
    extra,           \* the argument `extra`
    loans,           \* simulate's local list `loans`
    months,          \* local `months`
    total_interest,  \* local `total_interest`
    args,            \* calculate_payoff's arguments
    balance,         \* calculate_payoff's local `balance`
    results,         \* the (months, total_interest) pairs returned so far
    log,             \* what the last simulated month did, loan by loan
    orig,            \* the caller's list and its loans before the first call
    compounded       \* what calculate_payoff's argument `balance` has grown to
                     \* after `months` months at its rate with nothing paid

vars == <<todo, pc, fn, heap, callerLoans, extra, loans, months,
          total_interest, args, balance, results, log, orig, compounded>>

SimFns == {"snowball", "avalanche", "simulate"}

Range(s) == {s[i] : i \in DOMAIN s}

(***************************************************************************)
(* Inputs                                                                  *)
(***************************************************************************)
Rates == {1200 * k : k \in 0..MaxFactor}

LoanNames == <<"a", "b">>

LoanDicts(i) ==
    {[name |-> LoanNames[i], balance |-> Num(b), rate |-> r, min_payment |-> m] :
        b \in 0..MaxBalance, r \in Rates, m \in 0..MaxMinPayment}

LoanLists == {<< >>} \cup {<<a>> : a \in LoanDicts(1)}
                     \cup {<<a, b>> : a \in LoanDicts(1), b \in LoanDicts(2)}

PayoffBalances == (0..MaxBalance) \cup {Cap - 1, Cap, Cap + 1}

PayoffArgs ==
    [balance : PayoffBalances, rate : Rates, monthly_payment : 0..MaxPayment]

NoArgs == [balance |-> 0, rate |-> 0, monthly_payment |-> 0]

NoLog == [minPay |-> << >>, afterMin |-> << >>,
          pool |-> Zero, target |-> 0, extraPay |-> Zero]

\* sum(loan["min_payment"] for loan in loans)
TotalMinPayments(h, ls) ==
    LET RECURSIVE S(_)
        S(i) == IF i > Len(ls) THEN 0 ELSE h[ls[i]].min_payment + S(i + 1)
    IN S(1)

\* the caller's validation before the calculations
CallerAccepts(h, ls, debt_budget) ==
    /\ \A i \in DOMAIN ls :
          /\ h[ls[i]].name # ""
          /\ ~h[ls[i]].balance.neg /\ h[ls[i]].rate >= 0 /\ h[ls[i]].min_payment >= 0
    /\ ~(TotalMinPayments(h, ls) > debt_budget)

\* the calls a run makes: one function alone, or the caller's two strategies on
\* one list, in the caller's order and in the other one
Plans == {<<"calculate_payoff">>, <<"simulate">>, <<"snowball">>,
          <<"avalanche">>, <<"snowball", "avalanche">>,
          <<"avalanche", "snowball">>}

Init ==
    /\ todo \in Plans
    /\ pc = "start"
    /\ fn = "none"
    /\ IF todo = <<"calculate_payoff">>
       THEN /\ args \in PayoffArgs
            /\ heap = << >>
            /\ extra = 0
       ELSE /\ args = NoArgs
            /\ heap \in LoanLists
            /\ extra \in 0..MaxExtra
    /\ callerLoans = [i \in DOMAIN heap |-> i]
    /\ Len(todo) > 1 => CallerAccepts(heap, callerLoans, extra)
    /\ loans = << >>
    /\ months = 0
    /\ total_interest = Zero
    /\ balance = Num(args.balance)
    /\ results = << >>
    /\ log = NoLog
    /\ orig = [loans |-> callerLoans, heap |-> heap]
    /\ compounded = Num(args.balance)

(***************************************************************************)
(* calculate_payoff                                                        *)
(***************************************************************************)
\* rate / 100 / 12, exact for the rates of the model
MonthlyRate(r) == (r \div 100) \div 12

\* (mutant) simple interest: charged on the principal, not on the running
\* balance
Interest_Simple(b, r) == NMulNat(Num(args.balance), MonthlyRate(r))

\* balance * (rate / 100 / 12)
Interest(b, r) == NMulNat(b, MonthlyRate(r))

\* (mutant) the clamp is missing
ClampBalance_None(b) == b

\* if balance < 0: balance = 0
ClampBalance(b) == IF NLess(b, Zero) THEN Zero ELSE b

\* (mutant) the while test without `balance > 0`
PayoffContinues_CapOnly == months < Cap

\* (mutant) the while test gives up one month early
PayoffContinues_EarlyCap == NPos(balance) /\ months < Cap - 1

\* the while test of calculate_payoff
PayoffContinues == NPos(balance) /\ months < Cap

PayoffCall ==
    /\ pc \in {"start", "returned"}
    /\ todo # << >> /\ Head(todo) = "calculate_payoff"
    /\ todo' = Tail(todo)
    /\ fn' = "calculate_payoff"
    /\ pc' = "loop"
    /\ balance' = Num(args.balance)
    /\ months' = 0
    /\ total_interest' = Zero
    /\ compounded' = Num(args.balance)
    /\ UNCHANGED <<heap, callerLoans, extra, loans, args, results, log, orig>>

PayoffMonth ==
    /\ pc = "loop" /\ fn = "calculate_payoff"
    /\ PayoffContinues
    /\ LET interest == Interest(balance, args.rate)
       IN /\ balance' = ClampBalance(NSub(NAdd(balance, interest),
                                          Num(args.monthly_payment)))
          /\ total_interest' = NAdd(total_interest, interest)
    /\ months' = months + 1
    /\ compounded' = NMulNat(compounded, 1 + MonthlyRate(args.rate))
    /\ UNCHANGED <<todo, pc, fn, heap, callerLoans, extra, loans, args,
                   results, log, orig>>

PayoffReturn ==
    /\ pc = "loop" /\ fn = "calculate_payoff"
    /\ ~PayoffContinues
    /\ results' = Append(results, [fn |-> fn, months |-> months,
                                   total_interest |-> total_interest])
    /\ pc' = "returned"
    /\ UNCHANGED <<todo, fn, heap, callerLoans, extra, loans, months,
                   total_interest, args, balance, log, orig, compounded>>

(***************************************************************************)
(* snowball, avalanche, simulate                                           *)
(***************************************************************************)
\* (mutant) reverse=True as an ascending stable sort whose result is reversed:
\* loans with equal keys come out in reverse order
Sorted_ReverseList(ls, key, reverse) ==
    LET n == Len(ls)
        Before(i, j) == \/ NLess(key[i], key[j])
                        \/ key[i] = key[j] /\ i < j
        Place(i) == 1 + Cardinality({j \in 1..n : Before(j, i)})
        up == [p \in 1..n |-> ls[CHOOSE i \in 1..n : Place(i) = p]]
    IN IF reverse THEN [p \in 1..n |-> up[n + 1 - p]] ELSE up

\* sorted(ls, key=..., reverse=...): key[i] is the key of ls[i].  Python's sort
\* is stable, also with reverse=True: loans with equal keys keep their order.
Sorted(ls, key, reverse) ==
    LET n == Len(ls)
        Before(i, j) == \/ IF reverse THEN NLess(key[j], key[i])
                                      ELSE NLess(key[i], key[j])
                        \/ key[i] = key[j] /\ i < j
        Place(i) == 1 + Cardinality({j \in 1..n : Before(j, i)})
    IN [p \in 1..n |-> ls[CHOOSE i \in 1..n : Place(i) = p]]

\* (mutant) snowball sorts the largest balance first
SnowballOrder_Descending(h, ls) ==
    Sorted(ls, [i \in DOMAIN ls |-> h[ls[i]].balance], TRUE)

\* sorted(loans, key=lambda x: x["balance"])
SnowballOrder(h, ls) ==
    Sorted(ls, [i \in DOMAIN ls |-> h[ls[i]].balance], FALSE)

\* sorted(loans, key=lambda x: x["rate"], reverse=True)
AvalancheOrder(h, ls) ==
    Sorted(ls, [i \in DOMAIN ls |-> Num(h[ls[i]].rate)], TRUE)

\* (mutant) no copy: simulate works on the caller's dicts
CopyLoans_Alias(h, ls) == [heap |-> h, loans |-> ls]

\* [loan.copy() for loan in loans]: new dicts, allocated after the caller's
CopyLoans(h, ls) ==
    LET n == Len(orig.heap)
    IN [heap  |-> [a \in 1..(n + Len(ls)) |-> IF a <= n THEN h[a] ELSE h[ls[a - n]]],
        loans |-> [i \in DOMAIN ls |-> n + i]]

\* any(l["balance"] > 0 for l in loans)
AnyOwed(h, ls) == {i \in DOMAIN ls : NPos(h[ls[i]].balance)} # {}

\* (mutant) the while test lets one month too many through
SimulateContinues_LateCap == AnyOwed(heap, loans) /\ months <= Cap

\* the while test of simulate
SimulateContinues == AnyOwed(heap, loans) /\ months < Cap

\* min(loan["min_payment"], loan["balance"])
MinPay(min_payment, b) == NMin(Num(min_payment), b)

\* (mutant) the minimum payment is not taken out of the pool
LoanStep_NoDeduct(st, a) ==
    LET loan == st.heap[a]
    IN IF NLeq(loan.balance, Zero)
       THEN [st EXCEPT !.minPay = Append(@, Zero)]
       ELSE LET interest == Interest(loan.balance, loan.rate)
                owed     == NAdd(loan.balance, interest)
                pay      == MinPay(loan.min_payment, owed)
            IN [heap           |-> [st.heap EXCEPT ![a].balance = NSub(owed, pay)],
                extra_left     |-> st.extra_left,
                total_interest |-> NAdd(st.total_interest, interest),
                minPay         |-> Append(st.minPay, pay)]

\* the body of `for loan in loans` for the loan at address a; st carries the
\* heap, extra_left, total_interest and the month's log
LoanStep(st, a) ==
    LET loan == st.heap[a]
    IN IF NLeq(loan.balance, Zero)
       THEN [st EXCEPT !.minPay = Append(@, Zero)]
       ELSE LET interest == Interest(loan.balance, loan.rate)
                owed     == NAdd(loan.balance, interest)
                pay      == MinPay(loan.min_payment, owed)
            IN [heap           |-> [st.heap EXCEPT ![a].balance = NSub(owed, pay)],
                extra_left     |-> NSub(st.extra_left, pay),
                total_interest |-> NAdd(st.total_interest, interest),
                minPay         |-> Append(st.minPay, pay)]

RECURSIVE ForLoans(_, _, _)
ForLoans(st, ls, i) ==
    IF i > Len(ls) THEN st ELSE ForLoans(LoanStep(st, ls[i]), ls, i + 1)

\* next((l for l in loans if l["balance"] > 0), None), as an index; 0 is None
FirstOwed(h, ls) ==
    IF AnyOwed(h, ls)
    THEN CHOOSE i \in DOMAIN ls :
            /\ NPos(h[ls[i]].balance)
            /\ \A j \in 1..(i - 1) : ~NPos(h[ls[j]].balance)
    ELSE 0

\* (mutant) always loans[0]
TargetLoan_Head(h, ls) == 1

\* loans[0] if loans[0]["balance"] > 0 else next(...)
TargetLoan(h, ls) == IF NPos(h[ls[1]].balance) THEN 1 ELSE FirstOwed(h, ls)

\* min(extra_left, target_loan["balance"])
ExtraPay(pool, b) == NMin(pool, b)

\* extra_left = max(0, extra_left) and the extra payment that follows
ExtraStep(h, ls, extra_left) ==
    LET pool   == NMax(Zero, extra_left)
        target == IF NPos(pool) THEN TargetLoan(h, ls) ELSE 0
        pay    == IF target = 0 THEN Zero ELSE ExtraPay(pool, h[ls[target]].balance)
    IN [heap   |-> IF target = 0 THEN h
                   ELSE [h EXCEPT ![ls[target]].balance = NSub(@, pay)],
        pool   |-> pool,
        target |-> target,
        pay    |-> pay]

\* snowball(loans, extra), avalanche(loans, extra) or simulate(loans, extra) up
\* to the first while test: the sort, the copy, months = 0, total_interest = 0
SimulateCall ==
    /\ pc \in {"start", "returned"}
    /\ todo # << >> /\ Head(todo) \in SimFns
    /\ todo' = Tail(todo)
    /\ fn' = Head(todo)
    /\ pc' = "loop"
    /\ LET order == CASE Head(todo) = "snowball"  -> SnowballOrder(heap, callerLoans)
                      [] Head(todo) = "avalanche" -> AvalancheOrder(heap, callerLoans)
                      [] OTHER                    -> callerLoans
           copy  == CopyLoans(heap, order)
       IN /\ heap' = copy.heap
          /\ loans' = copy.loans
    /\ months' = 0
    /\ total_interest' = Zero
    /\ log' = NoLog
    /\ UNCHANGED <<callerLoans, extra, args, balance, results, orig, compounded>>

\* one iteration of simulate's while loop
SimulateMonth ==
    /\ pc = "loop" /\ fn \in SimFns
    /\ SimulateContinues
    /\ \E st \in {ForLoans([heap |-> heap, extra_left |-> Num(extra),
                              total_interest |-> total_interest,
                              minPay |-> << >>], loans, 1)} :
       \E ex \in {ExtraStep(st.heap, loans, st.extra_left)} :
          /\ heap' = ex.heap
          /\ total_interest' = st.total_interest
          /\ log' = [minPay   |-> st.minPay,
                     afterMin |-> [i \in DOMAIN loans |-> st.heap[loans[i]].balance],
                     pool     |-> ex.pool,
                     target   |-> ex.target,
                     extraPay |-> ex.pay]
    /\ months' = months + 1
    /\ UNCHANGED <<todo, pc, fn, callerLoans, extra, loans, args, balance,
                   results, orig, compounded>>

SimulateReturn ==
    /\ pc = "loop" /\ fn \in SimFns
    /\ ~SimulateContinues
    /\ results' = Append(results, [fn |-> fn, months |-> months,
                                   total_interest |-> total_interest])
    /\ pc' = "returned"
    /\ UNCHANGED <<todo, fn, heap, callerLoans, extra, loans, months,
                   total_interest, args, balance, log, orig, compounded>>

Next ==
    \/ PayoffCall
    \/ PayoffMonth
    \/ PayoffReturn
    \/ SimulateCall
    \/ SimulateMonth
    \/ SimulateReturn

Spec == Init /\ [][Next]_vars

(***************************************************************************)
(* Vocabulary of the properties                                            *)
(***************************************************************************)
InSim == fn \in SimFns

InPayoff == fn = "calculate_payoff"

Returned == pc = "returned"

LastResult == results[Len(results)]

\* a month of simulate has run and log describes it
MonthDone == InSim /\ pc \in {"loop", "returned"} /\ months > 0

\* the current balance of simulate's i-th loan
Bal(i) == heap[loans[i]].balance

\* the loan's balance after the minimum payments of the last month
Owing(i) == NPos(log.afterMin[i])

\* the position in the caller's list of the loan that simulate's i-th loan
\* copies (the model's loans of one list have different names)
OrigIndex(i) ==
    CHOOSE a \in DOMAIN orig.heap : orig.heap[a].name = heap[loans[i]].name

InitialBalance(i) == orig.heap[OrigIndex(i)].balance

\* everything paid in the last month: minimum payments and extra payment
PaidInMonth == NAdd(NSum(log.minPay), log.extraPay)

(***************************************************************************)
(* C1                                                                      *)
(***************************************************************************)
\* C1: snowball, avalanche and simulate never mutate the caller's input: in
\* every state, also after one call and during and after a second one, the
\* caller's list holds the same loans in the same order and every loan of it
\* has its name, balance, rate and min_payment of before the first call; so a
\* second call, whichever strategy came first, reads what the first one read.
C1_InputNotMutated ==
    /\ callerLoans = orig.loans
    /\ Len(heap) >= Len(orig.heap)
    /\ \A a \in DOMAIN orig.heap : heap[a] = orig.heap[a]

\* a second call has returned, both ran for some months, and the working loans
\* of the last one no longer have the balances the caller gave
C1_Witness ==
    /\ Returned /\ Len(results) = 2
    /\ results[1].months > 0 /\ results[2].months > 0
    /\ \E i \in DOMAIN loans : Bal(i) # InitialBalance(i)

C3_Bounded ==
    /\ months <= Cap
    /\ Returned /\ InPayoff => (~NPos(balance) \/ months = Cap)
    /\ Returned /\ InSim => (~AnyOwed(heap, loans) \/ months = Cap)
    /\ MonthDone =>
          \E i \in DOMAIN loans : NPos(NAdd(log.minPay[i], log.afterMin[i]))

\* a step taken at the while test returns or adds one month, and it returns
\* when nothing is owed
C3_LoopStep ==
    pc = "loop" =>
        /\ pc' = "returned" \/ (pc' = "loop" /\ months' = months + 1)
        /\ InSim /\ ~AnyOwed(heap, loans) => pc' = "returned" /\ months' = months
        /\ InPayoff /\ ~NPos(balance) => pc' = "returned" /\ months' = months

\* C3: calculate_payoff and simulate terminate on every input, also when the
\* payments are too small to amortize the debt: the month counter never
\* exceeds 600, every step of a loop returns or adds one month (so a call
\* takes at most 600 iterations), simulate stops at the first month after
\* which every balance is 0, and a call that returns with something still
\* owed returns at month 600.
C3_TerminatesWithinCap == []C3_Bounded /\ [][C3_LoopStep]_vars

\* simulate has returned at the cap with a loan that was never amortized
C3_Witness ==
    /\ Returned /\ InSim /\ months = Cap
    /\ \E i \in DOMAIN loans : NLess(InitialBalance(i), Bal(i))

(***************************************************************************)
(* C4                                                                      *)
(***************************************************************************)
\* what the caller owed before the first call
NothingOwed ==
    IF InPayoff THEN args.balance = 0
    ELSE \A a \in DOMAIN orig.heap : ~NPos(orig.heap[a].balance)

\* C4: a run that starts with nothing owed returns (0, 0) after zero
\* iterations: calculate_payoff(0, rate, payment), and snowball, avalanche and
\* simulate on the empty list and on a list whose balances are all 0.
C4_NothingOwedReturnsZero ==
    /\ NothingOwed => months = 0
    /\ Returned /\ NothingOwed =>
          LastResult.months = 0 /\ LastResult.total_interest = Zero

\* simulate has returned (0, 0) on the empty list
C4_Witness ==
    /\ Returned /\ fn = "simulate"
    /\ orig.loans = << >>
    /\ LastResult = [fn |-> "simulate", months |-> 0, total_interest |-> Zero]

(***************************************************************************)
(* C5                                                                      *)
(***************************************************************************)
\* the interest of `months` months of compounding on the argument `balance`
CompoundInterest == NSub(compounded, Num(args.balance))

\* C5 as stated: with monthly_payment = 0 and rate > 0 calculate_payoff
\* returns months = 600 and the interest of 600 months of compounding, for
\* every balance >= 0.
C5_AsStated ==
    Returned /\ InPayoff /\ args.monthly_payment = 0 /\ args.rate > 0 =>
        /\ LastResult.months = Cap
        /\ LastResult.total_interest = CompoundInterest

\* C5 (amended): with monthly_payment = 0, rate > 0 and balance > 0
\* calculate_payoff returns months = 600 and the interest of 600 months of
\* compounding on the balance; with balance = 0 it returns (0, 0).
C5_CappedCompounding ==
    Returned /\ InPayoff /\ args.monthly_payment = 0 /\ args.rate > 0 =>
        IF args.balance > 0
        THEN /\ LastResult.months = Cap
             /\ LastResult.total_interest = CompoundInterest
        ELSE /\ LastResult.months = 0
             /\ LastResult.total_interest = Zero

\* calculate_payoff has returned at the cap for a balance that only compounded
C5_Witness ==
    /\ Returned /\ InPayoff
    /\ args.monthly_payment = 0 /\ args.rate > 0 /\ args.balance > 0
    /\ LastResult.months = Cap
    /\ NLess(Num(args.balance), LastResult.total_interest)

(***************************************************************************)
(* C6                                                                      *)
(***************************************************************************)
\* C6 as stated: when calculate_payoff returns months = 600 the balance is
\* still > 0, and when it returns months < 600 the balance is 0.
C6_AsStated ==
    Returned /\ InPayoff =>
        /\ LastResult.months = Cap => NPos(balance)
        /\ LastResult.months < Cap => balance = Zero

\* C6 (amended): when calculate_payoff returns months < 600 the balance is 0,
\* and when it returns with the balance still > 0, months = 600; months = 600
\* alone does not say that the loan was not paid off.
C6_BelowCapMeansPaidOff ==
    Returned /\ InPayoff =>
        /\ LastResult.months <= Cap
        /\ LastResult.months < Cap => balance = Zero
        /\ NPos(balance) => LastResult.months = Cap

\* a loan paid off in the last month before the cap
C6_Witness ==
    /\ Returned /\ InPayoff
    /\ LastResult.months = Cap - 1
    /\ args.balance > 0 /\ balance = Zero

(***************************************************************************)
(* C7                                                                      *)
(***************************************************************************)
\* the first loan of simulate's list that still owed after the minimum
\* payments of the last month; 0 when none did
FirstOwing ==
    IF \E i \in DOMAIN loans : Owing(i)
    THEN CHOOSE i \in DOMAIN loans : Owing(i) /\ \A j \in 1..(i - 1) : ~Owing(j)
    ELSE 0

\* the extra payment of the last month went to one loan only, the first one
\* that owed, and no loan was paid when the pool was 0 or nothing was owed
SingleTarget ==
    /\ log.target = (IF NPos(log.pool) THEN FirstOwing ELSE 0)
    /\ \A i \in DOMAIN loans :
          Bal(i) = IF i = log.target THEN NSub(log.afterMin[i], log.extraPay)
                                     ELSE log.afterMin[i]
    /\ log.target = 0 => log.extraPay = Zero
    /\ fn = "avalanche" /\ log.target # 0 =>
          \A i \in DOMAIN loans :
             Owing(i) => heap[loans[i]].rate <= heap[loans[log.target]].rate

\* C7 as stated: after the minimum payments the pool, clamped to >= 0, is
\* applied in full to a single target, the first loan of the list with
\* balance > 0; no other loan gets an extra payment; under avalanche the
\* target's rate is maximal among the loans that still owe.
C7_AsStated ==
    MonthDone =>
        /\ SingleTarget
        /\ log.target # 0 => log.extraPay = log.pool

\* C7 (amended): after the minimum payments the pool, clamped to >= 0, goes to
\* a single target, the first loan of the list with balance > 0, which is paid
\* min(pool, its balance); what the pool holds beyond the target's balance is
\* paid to no loan that month.  No other loan gets an extra payment; under
\* avalanche the target's rate is maximal among the loans that still owe.
C7_SingleTargetUpToBalance ==
    MonthDone =>
        /\ SingleTarget
        /\ log.target # 0 =>
              log.extraPay = NMin(log.pool, log.afterMin[log.target])

\* under avalanche the second loan of the list was the target, its balance was
\* less than the pool, and another loan was paid off by its minimum payment
C7_Witness ==
    /\ MonthDone /\ fn = "avalanche"
    /\ log.target = 2
    /\ NPos(log.extraPay) /\ NLess(log.extraPay, log.pool)
    /\ Bal(2) = Zero

(***************************************************************************)
(* C8                                                                      *)
(***************************************************************************)
\* C8 as stated: under snowball the loan that gets the extra payment has the
\* smallest current balance among the loans whose balance is > 0 then.
C8_AsStated ==
    MonthDone /\ fn = "snowball" /\ log.target # 0 =>
        \A i \in DOMAIN loans :
           Owing(i) => NLeq(log.afterMin[log.target], log.afterMin[i])

\* C8 (amended): under snowball the loan that gets the extra payment is, among
\* the loans whose balance is > 0 then, one whose balance at the time of the
\* call was smallest: the loans are ordered once, before the first month, and
\* interest and minimum payments can leave the target with more than another
\* loan owes.
C8_SmallestInitialBalance ==
    MonthDone /\ fn = "snowball" /\ log.target # 0 =>
        \A i \in DOMAIN loans :
           Owing(i) => NLeq(InitialBalance(log.target), InitialBalance(i))

\* the snowball target owed more than another loan that still owed, and had
\* started with strictly less
C8_Witness ==
    /\ MonthDone /\ fn = "snowball" /\ log.target # 0
    /\ \E i \in DOMAIN loans :
          /\ Owing(i)
          /\ NLess(log.afterMin[i], log.afterMin[log.target])
          /\ NLess(InitialBalance(log.target), InitialBalance(i))

(***************************************************************************)
(* C9                                                                      *)
(***************************************************************************)
\* the sort key of simulate's i-th loan at the time of the call
SortKey(i) ==
    IF fn = "snowball" THEN InitialBalance(i) ELSE Num(orig.heap[OrigIndex(i)].rate)

\* C9: the sorts are stable: the simulated order is ascending by balance
\* (snowball) or descending by rate (avalanche), two loans with the same
\* balance (snowball) or rate (avalanche) keep the order of the caller's list,
\* and of tied loans that owe, the earlier one of the caller's list is the one
\* that gets the extra payment.
C9_StableSort ==
    InSim /\ fn # "simulate" /\ pc \in {"loop", "returned"} =>
        /\ \A i, j \in DOMAIN loans :
              i < j =>
                 /\ IF fn = "snowball" THEN NLeq(SortKey(i), SortKey(j))
                                       ELSE NLeq(SortKey(j), SortKey(i))
                 /\ SortKey(i) = SortKey(j) => OrigIndex(i) < OrigIndex(j)
        /\ months > 0 /\ log.target # 0 =>
              \A j \in DOMAIN loans :
                 Owing(j) /\ SortKey(j) = SortKey(log.target)
                     => OrigIndex(log.target) <= OrigIndex(j)

\* under avalanche two loans with the same rate and different balances both
\* owed, and the earlier one of the caller's list got the extra payment
C9_Witness ==
    /\ MonthDone /\ fn = "avalanche" /\ Len(loans) = 2
    /\ SortKey(1) = SortKey(2)
    /\ InitialBalance(1) # InitialBalance(2)
    /\ Owing(1) /\ Owing(2)
    /\ log.target = 1 /\ OrigIndex(1) = 1 /\ NPos(log.extraPay)

(***************************************************************************)
(* C10                                                                     *)
(***************************************************************************)
\* what each loan owed before its minimum payment of the last month, capped by
\* its minimum payment: min(min_payment, balance)
MinimumsDue ==
    [i \in DOMAIN loans |->
        NMin(Num(heap[loans[i]].min_payment),
             NAdd(log.minPay[i], log.afterMin[i]))]

\* C10: when extra is at least the sum of the loans' min_payment, the total
\* paid in one month, minimum payments and extra payment together, never
\* exceeds extra; without that the minimum payments are still paid in full and
\* the total is bounded by the larger of extra and the sum of
\* min(min_payment, balance) over the loans.
C10_BudgetConserved ==
    MonthDone =>
        /\ TotalMinPayments(heap, loans) <= extra => NLeq(PaidInMonth, Num(extra))
        /\ NLeq(PaidInMonth, NMax(Num(extra), NSum(MinimumsDue)))
        /\ log.minPay = MinimumsDue

\* extra covers the minimum payments of two loans that still owe, a minimum
\* payment and an extra payment were made, and the month used the whole budget
C10_Witness ==
    /\ MonthDone /\ Len(loans) = 2
    /\ TotalMinPayments(heap, loans) <= extra
    /\ NPos(NSum(log.minPay)) /\ NPos(log.extraPay)
    /\ NPos(Bal(1)) /\ NPos(Bal(2))
    /\ PaidInMonth = Num(extra)

\* the minimum payments are more than extra, and more than extra was paid
C10_OverBudget ==
    /\ MonthDone
    /\ TotalMinPayments(heap, loans) > extra
    /\ NLess(Num(extra), PaidInMonth)

=============================================================================
